---- MODULE Spec2Model ----
(***************************************************************************)
(* Brain (junior/utils/brain.py): the provider selector                    *)
(* choose_best_instructor and the dispatcher prompt.                       *)
(*                                                                         *)
(* A client handle is identified by the registry key it is stored under    *)
(* (self.instructors[full_name]); None is Python's None.  A prompt is the  *)
(* sequence of its tokens, so count_tokens is its length.  The usage       *)
(* tracker (junior/utils/token_tracker.py) is not part of the sources at   *)
(* hand: it is modelled as one counter per key it is called with, and      *)
(* self.token_tracker, which Brain.__init__ does not assign, is taken to   *)
(* be bound to it.                                                         *)
(***************************************************************************)
EXTENDS Integers, Sequences, FiniteSets, TLC

VARIABLES llm_configs, instructors, usage, call

vars == <<llm_configs, instructors, usage, call>>

None == "None"

\* Bounds of the model.
MaxTokens == 3
MaxUsage == 3

\* float("-inf"): below every score, which is at least max_output_tokens.
NegInf == -1

Names == {"openai/gpt-4", "Groq/llama3"}
Providers == {"openai", "groq"}
Keys == Names \cup Providers
Categories == {"everything", "code"}
Windows == {4, 6}
MaxOutputs == {2}
ExpertSets == {{"code"}, {"everything", "code"}}
Limits == {2}
Replies == {"valid", "invalid", "raises"}
LlmArgs == {None} \cup Names
Prompts == UNION {[1..n -> {"tok"}] : n \in 1..MaxTokens}

\* str.lower() on the identifiers in play.
Lower(s) ==
    CASE s = "Groq/llama3" -> "groq/llama3"
      [] OTHER -> s

\* The provider attribute of the handle stored under full_name: the
\* provider of the client library it wraps, never the "provider/model" key.
Provider(full_name) ==
    CASE full_name = "openai/gpt-4" -> "openai"
      [] full_name = "Groq/llama3" -> "groq"

count_tokens(prompt) == Len(prompt)

ModelConfigs(name, others) ==
    [name : {name},
     context_window_tokens : Windows,
     max_output_tokens : MaxOutputs,
     expert_for : ExpertSets,
     limits : Limits,
     fallback : {None} \cup others]

\* The catalogues: up to two models in any order, a fallback naming
\* another configured model.
Catalogues ==
    {<< >>}
    \cup {<<c>> : c \in UNION {ModelConfigs(n, {}) : n \in Names}}
    \cup UNION {{<<c1, c2>> : c1 \in ModelConfigs(n1, {n2}), c2 \in ModelConfigs(n2, {n1})} :
                  <<n1, n2>> \in {p \in Names \X Names : p[1] # p[2]}}

ConfigOf(configs, name) ==
    configs[CHOOSE i \in 1..Len(configs) : configs[i].name = name]

Configured(configs) == {configs[i].name : i \in 1..Len(configs)}

----
\* TokenTracker

model_exceeds_limits(use, name, limits) == use[name] > limits

update_model_usage(use, key, tokens) == [use EXCEPT ![key] = @ + tokens]

----
\* Brain.choose_best_instructor

\* Variant: "everything" read as a wildcard that any model satisfies.
supports_category_wildcard(config, category) ==
    category \in config.expert_for \/ category = "everything"

supports_category(config, category) == category \in config.expert_for

within_token_limit(config, token_count) ==
    token_count + config.max_output_tokens <= config.context_window_tokens

score_of(config, token_count) == config.context_window_tokens - token_count

\* Variant: >= in place of >, so the last of several equal scores wins.
Improves_nonstrict(score, best_match_score) == score >= best_match_score

Improves(score, best_match_score) == score > best_match_score

\* Lines 105-112 for the model (name, config) the iteration settled on.
Evaluate(st, name, config, token_count, category) ==
    IF /\ supports_category(config, category)
       /\ within_token_limit(config, token_count)
       /\ Improves(score_of(config, token_count), st.best_match_score)
    THEN [best_instructor |-> name,
          best_match_score |-> score_of(config, token_count),
          name |-> name]
    ELSE [st EXCEPT !.name = name]

\* The model an over-limit entry is replaced by, or None to skip it.
FallbackOf(config, insts) ==
    IF config.fallback # None /\ config.fallback \in insts
    THEN config.fallback
    ELSE None

\* Variant: the fallback judged by the configuration of the entry it replaces
\* (line 101 left out).
Iterate_original_config(st, configs, insts, use, i, token_count, category) ==
    LET name == configs[i].name
        config == configs[i]
    IN  IF name \notin insts
        THEN [st EXCEPT !.name = name]
        ELSE IF model_exceeds_limits(use, name, config.limits)
             THEN LET fallback == FallbackOf(config, insts)
                  IN  IF fallback # None
                      THEN Evaluate(st, fallback, config, token_count, category)
                      ELSE [st EXCEPT !.name = name]
             ELSE Evaluate(st, name, config, token_count, category)

\* One iteration of the for loop (lines 95-112).
Iterate(st, configs, insts, use, i, token_count, category) ==
    LET name == configs[i].name
        config == configs[i]
    IN  IF name \notin insts
        THEN [st EXCEPT !.name = name]
        ELSE IF model_exceeds_limits(use, name, config.limits)
             THEN LET fallback == FallbackOf(config, insts)
                  IN  IF fallback # None
                      THEN Evaluate(st, fallback, ConfigOf(configs, fallback),
                                    token_count, category)
                      ELSE [st EXCEPT !.name = name]
             ELSE Evaluate(st, name, config, token_count, category)

RECURSIVE Loop(_, _, _, _, _, _, _)
Loop(st, configs, insts, use, i, token_count, category) ==
    IF i > Len(configs)
    THEN st
    ELSE Loop(Iterate(st, configs, insts, use, i, token_count, category),
              configs, insts, use, i + 1, token_count, category)

\* The handle returned and the identifier echoed (None: "No suitable
\* instructor found.").
choose_best_instructor(configs, insts, use, prompt, category) ==
    LET st == Loop([best_instructor |-> None, best_match_score |-> NegInf, name |-> None],
                   configs, insts, use, 1, count_tokens(prompt), category)
    IN  [best_instructor |-> st.best_instructor,
         logged |-> IF st.best_instructor # None THEN st.name ELSE None]

----
\* Brain.prompt

\* Lines 134-138: the handle prompt() goes on with.
Resolve(configs, insts, use, llm, prompt, category) ==
    IF llm # None /\ Lower(llm) \in insts
    THEN [instructor |-> Lower(llm), selected |-> FALSE, logged |-> llm]
    ELSE LET sel == choose_best_instructor(configs, insts, use, prompt, category)
         IN  [instructor |-> sel.best_instructor, selected |-> TRUE, logged |-> sel.logged]

\* Variant: the early return of lines 140-142 left out, so that None is
\* called and the call raises.
Dispatch_unguarded(instructor, use, prompt, reply) ==
    IF instructor = None \/ reply = "raises"
    THEN [usage |-> use, invoked |-> None, outcome |-> "raised"]
    ELSE [usage |-> update_model_usage(use, Provider(instructor), count_tokens(prompt)),
          invoked |-> instructor,
          outcome |-> IF reply = "valid" THEN "value" ELSE "None"]

\* Lines 140-153: the call of the client, the usage update and the coercion.
Dispatch(instructor, use, prompt, reply) ==
    IF instructor = None
    THEN [usage |-> use, invoked |-> None, outcome |-> "None"]
    ELSE IF reply = "raises"
         THEN [usage |-> use, invoked |-> instructor, outcome |-> "raised"]
         ELSE [usage |-> update_model_usage(use, Provider(instructor), count_tokens(prompt)),
               invoked |-> instructor,
               outcome |-> IF reply = "valid" THEN "value" ELSE "None"]

Idle == [op |-> "init", llm |-> None, tokens |-> 0, category |-> None,
         instructor |-> None, selected |-> FALSE, logged |-> None,
         invoked |-> None, outcome |-> None, reply |-> None, repeat |-> FALSE]

Init ==
    /\ llm_configs \in Catalogues
    /\ instructors \in SUBSET Names
    /\ usage = [k \in Keys |-> 0]
    /\ call = Idle

InitAny ==
    /\ llm_configs \in Catalogues
    /\ instructors \in SUBSET Names
    /\ usage \in [Keys -> 0..MaxUsage]
    /\ \A k \in Keys \ Configured(llm_configs) : usage[k] = 0
    /\ call = Idle

\* Variant: the selector books the prompt's tokens on the model it picks.
ChooseBestInstructor_recording(prompt, category) ==
    LET sel == choose_best_instructor(llm_configs, instructors, usage, prompt, category)
    IN  /\ call' = [Idle EXCEPT !.op = "choose", !.tokens = count_tokens(prompt),
                                !.category = category, !.selected = TRUE,
                                !.instructor = sel.best_instructor,
                                !.logged = sel.logged,
                                !.repeat = /\ call.op = "choose"
                                           /\ call.tokens = count_tokens(prompt)
                                           /\ call.category = category]
        /\ usage' = IF sel.best_instructor = None
                    THEN usage
                    ELSE update_model_usage(usage, sel.best_instructor, count_tokens(prompt))
        /\ UNCHANGED <<llm_configs, instructors>>

\* A caller asks the selector for a handle; repeat tells that the call
\* before it was the same request.
ChooseBestInstructor(prompt, category) ==
    LET sel == choose_best_instructor(llm_configs, instructors, usage, prompt, category)
    IN  /\ call' = [Idle EXCEPT !.op = "choose", !.tokens = count_tokens(prompt),
                                !.category = category, !.selected = TRUE,
                                !.instructor = sel.best_instructor,
                                !.logged = sel.logged,
                                !.repeat = /\ call.op = "choose"
                                           /\ call.tokens = count_tokens(prompt)
                                           /\ call.category = category]
        /\ UNCHANGED <<llm_configs, instructors, usage>>

PromptCall(llm, prompt, category, reply) ==
    LET r == Resolve(llm_configs, instructors, usage, llm, prompt, category)
        d == Dispatch(r.instructor, usage, prompt, reply)
    IN  /\ call.op = "init"
        /\ \A k \in Keys : d.usage[k] <= MaxUsage
        /\ usage' = d.usage
        /\ call' = [op |-> "prompt", llm |-> llm, tokens |-> count_tokens(prompt),
                    category |-> category, instructor |-> r.instructor,
                    selected |-> r.selected, logged |-> r.logged,
                    invoked |-> d.invoked, outcome |-> d.outcome,
                    reply |-> IF d.invoked = None THEN None ELSE reply,
                    repeat |-> FALSE]
        /\ UNCHANGED <<llm_configs, instructors>>

\* The caller takes the result (lines 166-168) and is free to call again.
Return ==
    /\ call.op = "prompt"
    /\ call' = Idle
    /\ UNCHANGED <<llm_configs, instructors, usage>>

Next ==
    \/ \E l \in LlmArgs, p \in Prompts, c \in Categories, r \in Replies :
          PromptCall(l, p, c, r)
    \/ Return

NextSelect == \E p \in Prompts, c \in Categories : ChooseBestInstructor(p, c)

\* The dispatcher, from the state the constructor leaves.
Spec == Init /\ [][Next]_vars

\* The selector, applied to every catalogue, registry and usage state.
SelectSpec == InitAny /\ [][NextSelect]_vars

----
\* Properties.  chosen is the handle a selector call returned; the entries
\* below read the catalogue directly.

chosen == call.instructor

Entries == 1..Len(llm_configs)

OverLimit(i) ==
    /\ llm_configs[i].name \in instructors
    /\ usage[llm_configs[i].name] > llm_configs[i].limits

\* An over-limit entry i whose place is taken by the chosen handle.
ReplacedByChosen(i) ==
    /\ OverLimit(i)
    /\ llm_configs[i].fallback = chosen
    /\ llm_configs[i].name # chosen

Fits(config) ==
    call.tokens + config.max_output_tokens <= config.context_window_tokens

\* C1: a handle the selector returns belongs to a model whose own
\* max_output_tokens and context_window_tokens admit the prompt, also when
\* the model stands in for an over-limit one.
Thm_C1 ==
    (call.op = "choose" /\ chosen # None) => Fits(ConfigOf(llm_configs, chosen))

\* A fallback is returned for an over-limit entry that the prompt would not
\* have fitted.
Witness_C1 ==
    /\ call.op = "choose"
    /\ chosen # None
    /\ \E i \in Entries : ReplacedByChosen(i) /\ ~Fits(llm_configs[i])

\* C2: a handle the selector returns belongs to a model whose own expert_for
\* holds the requested category, also when the model stands in for an
\* over-limit one.
Thm_C2 ==
    (call.op = "choose" /\ chosen # None)
        => call.category \in ConfigOf(llm_configs, chosen).expert_for

\* A fallback is returned for an over-limit entry that lacks the category.
Witness_C2 ==
    /\ call.op = "choose"
    /\ chosen # None
    /\ \E i \in Entries :
          ReplacedByChosen(i) /\ call.category \notin llm_configs[i].expert_for

\* C3: a model over its limit and without a fallback is never the one whose
\* handle the selector returns.
Claim_C3 ==
    call.op = "choose"
        => \A i \in Entries :
              (OverLimit(i) /\ llm_configs[i].fallback = None)
                  => chosen # llm_configs[i].name

\* The model entry i stands for once an over-limit entry is replaced or
\* skipped, and the entries whose model qualifies.
Effective(i) ==
    LET c == llm_configs[i]
    IN  IF c.name \notin instructors THEN None
        ELSE IF ~OverLimit(i) THEN c.name
        ELSE IF c.fallback # None /\ c.fallback \in instructors THEN c.fallback
        ELSE None

Qualifies(i) ==
    /\ Effective(i) # None
    /\ call.category \in ConfigOf(llm_configs, Effective(i)).expert_for
    /\ Fits(ConfigOf(llm_configs, Effective(i)))

Headroom(i) ==
    ConfigOf(llm_configs, Effective(i)).context_window_tokens - call.tokens

Qualifying == {i \in Entries : Qualifies(i)}

Claim_C5 ==
    call.op = "prompt"
        => IF call.llm # None /\ call.llm \in instructors
           THEN chosen = call.llm /\ ~call.selected
           ELSE call.selected

Claim_C7 ==
    [][(call'.op = "prompt" /\ call'.invoked # None /\ call'.reply # "raises")
          => usage'[call'.invoked] = usage[call'.invoked] + call'.tokens]_vars

\* C8: prompt() ends by returning an instance of the schema or None, never
\* by raising.
Claim_C8 ==
    call.op = "prompt" => call.outcome \in {"value", "None"}

Claim_C10 ==
    call.op = "choose" => call.logged = chosen

====
